---------------------------- MODULE Spec2Model ----------------------------
(***************************************************************************)
(* Model of the RPN calculator of src/src/main.rs.                         *)
(*                                                                         *)
(* Number is f32.  A Number is modelled by its three IEEE-754 binary32     *)
(* fields, [s |-> sign bit, e |-> biased exponent 0..255, f |-> 23-bit     *)
(* fraction], so equality of two model values is equality of bit patterns. *)
(* The one abstraction: every NaN is the single value NaN (Rust leaves     *)
(* the sign and payload of a NaN produced by arithmetic unspecified and    *)
(* prints every NaN as "NaN").  Arithmetic is round-to-nearest-even, done  *)
(* in integers that stay below 2^31.                                       *)
(*                                                                         *)
(* An input line is a sequence of characters.  A character is a           *)
(* one-character string; a character above U+00FF, which a string of this *)
(* language cannot hold, is the string of its name, such as "U+3000".      *)
(***************************************************************************)
EXTENDS Integers, Sequences, FiniteSets, TLC

(***************************************************************************)
(* Bounds of the model.                                                    *)
(***************************************************************************)
\* lines read by the main loop in one behaviour of Spec
MaxSteps == 4
\* lines read in one behaviour of SpecRPN (the recorded number/operator run)
MaxFed == 5

(***************************************************************************)
(* f32: representation                                                     *)
(***************************************************************************)
FracBits == 23
ExpMax == 255
\* value of a finite f32 = M * 2^E with M < 2^24; E of the smallest subnormal
MinE == -149
\* biased exponent e  <->  E = e - ExpBias for the 24-bit integer significand
ExpBias == 150

Hidden == 2 ^ FracBits
TwoP24 == 2 ^ (FracBits + 1)

NaN == [s |-> 0, e |-> ExpMax, f |-> 2 ^ (FracBits - 1)]
Inf(s) == [s |-> s, e |-> ExpMax, f |-> 0]
Zero(s) == [s |-> s, e |-> 0, f |-> 0]

IsNaN(x) == x.e = ExpMax /\ x.f # 0
IsInf(x) == x.e = ExpMax /\ x.f = 0
IsZero(x) == x.e = 0 /\ x.f = 0
IsFinite(x) == x.e # ExpMax

\* integer significand and exponent of a finite value: |x| = Man(x) * 2^Ex(x)
Man(x) == IF x.e = 0 THEN x.f ELSE x.f + Hidden
Ex(x) == IF x.e = 0 THEN MinE ELSE x.e - ExpBias

RECURSIVE BitLen(_)
BitLen(m) == IF m = 0 THEN 0 ELSE 1 + BitLen(m \div 2)

Max(a, b) == IF a >= b THEN a ELSE b

(***************************************************************************)
(* RoundPack(s, m, ex, sticky): the f32 nearest (ties to even) to          *)
(* (-1)^s * (m + r) * 2^ex, where r = 0 if ~sticky and 0 < r < 1 if        *)
(* sticky.  Requires m < 2^30, and m >= 2^25 whenever sticky.              *)
(***************************************************************************)
RoundPack(s, m, ex, sticky) ==
  IF m = 0 THEN Zero(s)
  ELSE
    LET n == BitLen(m)
        shift == Max(n - (FracBits + 1), MinE - ex)
    IN  IF shift <= 0
        THEN LET q == m * 2 ^ (0 - shift)
                 e2 == ex + shift
             IN  IF q >= Hidden
                 THEN (IF e2 + ExpBias >= ExpMax THEN Inf(s)
                       ELSE [s |-> s, e |-> e2 + ExpBias, f |-> q - Hidden])
                 ELSE [s |-> s, e |-> 0, f |-> q]
        ELSE IF shift > n THEN Zero(s)
        ELSE LET p == 2 ^ shift
                 half == 2 ^ (shift - 1)
                 q0 == m \div p
                 r == m % p
                 up == r > half \/ (r = half /\ (sticky \/ q0 % 2 = 1))
                 q1 == IF up THEN q0 + 1 ELSE q0
                 q == IF q1 = TwoP24 THEN Hidden ELSE q1
                 e2 == IF q1 = TwoP24 THEN ex + shift + 1 ELSE ex + shift
             IN  IF q >= Hidden
                 THEN (IF e2 + ExpBias >= ExpMax THEN Inf(s)
                       ELSE [s |-> s, e |-> e2 + ExpBias, f |-> q - Hidden])
                 ELSE [s |-> s, e |-> 0, f |-> q]

(***************************************************************************)
(* f32: the operators the calculator uses                                  *)
(***************************************************************************)
\* b == Number::from(0u8): IEEE equality, so -0.0 == 0.0 and NaN # anything
FEq(x, y) ==
  /\ ~IsNaN(x)
  /\ ~IsNaN(y)
  /\ (x = y \/ (IsZero(x) /\ IsZero(y)))

\* unary minus: flips the sign bit
FNeg(x) == IF IsNaN(x) THEN NaN ELSE [x EXCEPT !.s = 1 - x.s]

\* significand shifted left to exactly 24 bits (m > 0), and the exponent to match
NormMan(m) == m * 2 ^ (FracBits + 1 - BitLen(m))
NormEx(m, ex) == ex - (FracBits + 1 - BitLen(m))

\* |x| + |y| or |x| - |y| for finite x, y with (Ex(x), Man(x)) >= (Ex(y), Man(y))
AddOrdered(x, y) ==
  LET GuardBits == 5
      d == Ex(x) - Ex(y)
      big == Man(x) * 2 ^ GuardBits
      ex == Ex(x) - GuardBits
      exact == d <= GuardBits
      small == IF exact THEN Man(y) * 2 ^ (GuardBits - d)
               ELSE IF d - GuardBits > FracBits THEN 0
               ELSE Man(y) \div 2 ^ (d - GuardBits)
      sticky == IF exact THEN FALSE
                ELSE IF d - GuardBits > FracBits THEN Man(y) # 0
                ELSE Man(y) % 2 ^ (d - GuardBits) # 0
  IN  IF x.s = y.s
      THEN RoundPack(x.s, big + small, ex, sticky)
      ELSE IF big = small THEN Zero(0)
      ELSE IF sticky THEN RoundPack(x.s, big - small - 1, ex, TRUE)
      ELSE RoundPack(x.s, big - small, ex, FALSE)

\* a + b
FAdd(x, y) ==
  IF IsNaN(x) \/ IsNaN(y) THEN NaN
  ELSE IF IsInf(x) THEN (IF IsInf(y) /\ x.s # y.s THEN NaN ELSE x)
  ELSE IF IsInf(y) THEN y
  ELSE IF IsZero(x) /\ IsZero(y) THEN (IF x.s = y.s THEN x ELSE Zero(0))
  ELSE IF Ex(x) > Ex(y) \/ (Ex(x) = Ex(y) /\ Man(x) >= Man(y))
       THEN AddOrdered(x, y)
       ELSE AddOrdered(y, x)

\* a - b
FSub(x, y) == FAdd(x, FNeg(y))

\* the 24-bit significands are multiplied in two 12-bit halves
HalfMask == 2 ^ 12

\* a * b
FMul(x, y) ==
  LET s == (x.s + y.s) % 2
  IN  IF IsNaN(x) \/ IsNaN(y) THEN NaN
      ELSE IF IsInf(x) \/ IsInf(y)
           THEN (IF IsZero(x) \/ IsZero(y) THEN NaN ELSE Inf(s))
      ELSE IF IsZero(x) \/ IsZero(y) THEN Zero(s)
      ELSE LET ma == NormMan(Man(x))
               mb == NormMan(Man(y))
               ex == NormEx(Man(x), Ex(x)) + NormEx(Man(y), Ex(y))
               a1 == ma \div HalfMask
               a0 == ma % HalfMask
               b1 == mb \div HalfMask
               b0 == mb % HalfMask
               mid == a1 * b0 + a0 * b1
               lo0 == a0 * b0 + (mid % HalfMask) * HalfMask
               lo == lo0 % TwoP24
               hi == a1 * b1 + mid \div HalfMask + lo0 \div TwoP24
               \* product = hi * 2^24 + lo, 2^46 <= product < 2^48
               cut == 19
           IN  RoundPack(s, hi * 2 ^ (FracBits + 1 - cut) + lo \div 2 ^ cut,
                         ex + cut, lo % 2 ^ cut # 0)

\* k more quotient bits of (q + rem/den)
RECURSIVE DivBits(_, _, _, _)
DivBits(q, rem, den, k) ==
  IF k = 0 THEN <<q, rem>>
  ELSE IF 2 * rem >= den THEN DivBits(2 * q + 1, 2 * rem - den, den, k - 1)
  ELSE DivBits(2 * q, 2 * rem, den, k - 1)

\* a / b
FDiv(x, y) ==
  LET s == (x.s + y.s) % 2
      QuotBits == 26
  IN  IF IsNaN(x) \/ IsNaN(y) THEN NaN
      ELSE IF IsInf(x) THEN (IF IsInf(y) THEN NaN ELSE Inf(s))
      ELSE IF IsInf(y) THEN Zero(s)
      ELSE IF IsZero(y) THEN (IF IsZero(x) THEN NaN ELSE Inf(s))
      ELSE IF IsZero(x) THEN Zero(s)
      ELSE LET ma == NormMan(Man(x))
               mb == NormMan(Man(y))
               ex == NormEx(Man(x), Ex(x)) - NormEx(Man(y), Ex(y))
               qr == DivBits(ma \div mb, ma % mb, mb, QuotBits)
           IN  RoundPack(s, qr[1], ex - QuotBits, qr[2] # 0)

\* (r * 2^k) mod den, for r < den < 2^24, 6 bits at a time
RECURSIVE ShiftMod(_, _, _)
ShiftMod(r, den, k) ==
  IF k = 0 \/ r = 0 THEN r
  ELSE IF k >= 6
       THEN ShiftMod((r * 2 ^ 6) % den, den, k - 6)
       ELSE (r * 2 ^ k) % den

\* a % b: the remainder of the truncated division (fmod), exact, sign of a
FRem(x, y) ==
  IF IsNaN(x) \/ IsNaN(y) \/ IsInf(x) \/ IsZero(y) THEN NaN
  ELSE IF IsInf(y) \/ IsZero(x) THEN x
  ELSE LET d == Ex(x) - Ex(y)
       IN  IF d >= 0
           THEN RoundPack(x.s, ShiftMod(Man(x) % Man(y), Man(y), d), Ex(y), FALSE)
           ELSE IF 0 - d > FracBits \/ Man(x) \div 2 ^ (0 - d) < Man(y) THEN x
           ELSE RoundPack(x.s, Man(x) % (Man(y) * 2 ^ (0 - d)), Ex(x), FALSE)

\* the f32 nearest to the integer n, 0 <= n < 2^30
FromNat(n) == RoundPack(0, n, 0, FALSE)

(***************************************************************************)
(* Text: str::trim and the three recognizers                               *)
(***************************************************************************)
\* U+000B, U+0085 and U+00A0, which have no escape: the characters themselves
VerticalTab == ""
NextLine == ""
NoBreakSpace == " "

\* char::is_whitespace, the Unicode White_Space property: U+0009..U+000D,
\* U+0020, U+0085, U+00A0, U+1680, U+2000..U+200A, U+2028, U+2029, U+202F,
\* U+205F, U+3000
WhiteSpace ==
  { "\t", "\n", VerticalTab, "\f", "\r", " ", NextLine, NoBreakSpace,
    "U+1680", "U+2000", "U+2001", "U+2002", "U+2003", "U+2004", "U+2005",
    "U+2006", "U+2007", "U+2008", "U+2009", "U+200A", "U+2028", "U+2029",
    "U+202F", "U+205F", "U+3000" }

RECURSIVE TrimStart(_)
TrimStart(t) ==
  IF t # <<>> /\ Head(t) \in WhiteSpace THEN TrimStart(Tail(t)) ELSE t

RECURSIVE TrimEnd(_)
TrimEnd(t) ==
  IF t # <<>> /\ t[Len(t)] \in WhiteSpace
  THEN TrimEnd(SubSeq(t, 1, Len(t) - 1))
  ELSE t

\* str.trim()
Trim(t) == TrimEnd(TrimStart(t))

DigitChars == <<"0", "1", "2", "3", "4", "5", "6", "7", "8", "9">>
IsDigit(c) == \E i \in 1..Len(DigitChars) : DigitChars[i] = c
DigitVal(c) == (CHOOSE i \in 1..Len(DigitChars) : DigitChars[i] = c) - 1

UpperChars == <<"A", "B", "C", "D", "E", "F", "G", "H", "I", "J", "K", "L", "M",
                "N", "O", "P", "Q", "R", "S", "T", "U", "V", "W", "X", "Y", "Z">>
LowerChars == <<"a", "b", "c", "d", "e", "f", "g", "h", "i", "j", "k", "l", "m",
                "n", "o", "p", "q", "r", "s", "t", "u", "v", "w", "x", "y", "z">>
ToLower(c) ==
  IF \E i \in 1..Len(UpperChars) : UpperChars[i] = c
  THEN LowerChars[CHOOSE i \in 1..Len(UpperChars) : UpperChars[i] = c]
  ELSE c
LowerCase(t) == [i \in 1..Len(t) |-> ToLower(t[i])]

\* index of the first character at or after i that is not a digit
RECURSIVE SkipDigits(_, _)
SkipDigits(t, i) ==
  IF i <= Len(t) /\ IsDigit(t[i]) THEN SkipDigits(t, i + 1) ELSE i

\* the decimal digits t[i..j-1] read as an integer, continuing from acc
RECURSIVE DigitsVal(_, _, _, _)
DigitsVal(t, i, j, acc) ==
  IF i >= j THEN acc ELSE DigitsVal(t, i + 1, j, 10 * acc + DigitVal(t[i]))

\* the f32 nearest to (-1)^s * d * 10^x (correctly rounded, as dec2flt does).
\* Modelled for d < 2^30 and 10^|x| < 2^30, d * 10^x < 2^30.
Dec2Flt(s, d, x) ==
  IF d = 0 THEN Zero(s)
  ELSE IF x >= 0 THEN RoundPack(s, d * 10 ^ x, 0, FALSE)
  ELSE LET QuotMin == 27
           den == 10 ^ (0 - x)
           k == Max(0, QuotMin + BitLen(den) - BitLen(d))
           qr == DivBits(d \div den, d % den, den, k)
       IN  RoundPack(s, qr[1], 0 - k, qr[2] # 0)

NoNumber == [ok |-> FALSE, val |-> Zero(0)]
SomeNumber(v) == [ok |-> TRUE, val |-> v]

\* Number ::= ( Digit+ | Digit+ '.' Digit* | Digit* '.' Digit+ ) Exp?
\* Exp ::= 'e' Sign? Digit+        (r is the text after the optional sign)
ParseDecimal(s, r) ==
  LET i2 == SkipDigits(r, 1)
      hasDot == i2 <= Len(r) /\ r[i2] = "."
      f1 == i2 + 1
      f2 == IF hasDot THEN SkipDigits(r, f1) ELSE f1
      nFrac == IF hasDot THEN f2 - f1 ELSE 0
      p == IF hasDot THEN f2 ELSE i2
      hasExp == p <= Len(r) /\ ToLower(r[p]) = "e"
      hasESign == hasExp /\ p + 1 <= Len(r) /\ r[p + 1] \in {"+", "-"}
      e1 == IF hasESign THEN p + 2 ELSE p + 1
      e2 == IF hasExp THEN SkipDigits(r, e1) ELSE p
      eAbs == IF hasExp THEN DigitsVal(r, e1, e2, 0) ELSE 0
      eVal == IF hasESign /\ r[p + 1] = "-" THEN 0 - eAbs ELSE eAbs
      d == DigitsVal(r, f1, f2, DigitsVal(r, 1, i2, 0))
  IN  IF (i2 - 1) + nFrac = 0 THEN NoNumber
      ELSE IF hasExp /\ e2 = e1 THEN NoNumber
      ELSE IF e2 # Len(r) + 1 THEN NoNumber
      ELSE SomeNumber(Dec2Flt(s, d, eVal - nFrac))

\* str.parse::<f32>(): Float ::= Sign? ( 'inf' | 'infinity' | 'nan' | Number )
ParseF32(t) ==
  IF t = <<>> THEN NoNumber
  ELSE LET signed == Head(t) \in {"+", "-"}
           s == IF Head(t) = "-" THEN 1 ELSE 0
           r == IF signed THEN Tail(t) ELSE t
           dec == ParseDecimal(s, r)
           low == LowerCase(r)
       IN  IF r = <<>> THEN NoNumber
           ELSE IF dec.ok THEN dec
           ELSE IF low = <<"n", "a", "n">> THEN SomeNumber(NaN)
           ELSE IF low = <<"i", "n", "f">>
                   \/ low = <<"i", "n", "f", "i", "n", "i", "t", "y">>
                THEN SomeNumber(Inf(s))
           ELSE NoNumber

\* the operators and the commands
Operators == {"Adder", "Subtractor", "Multiplier", "Divider", "Modulator"}
Commands == {"Quit", "Pop", "Show", "Clear", "Help"}
None == "None"

try_get_operator(str) ==
  LET t == Trim(str)
  IN  IF t = <<"+">> THEN "Adder"
      ELSE IF t = <<"-">> THEN "Subtractor"
      ELSE IF t = <<"*">> THEN "Multiplier"
      ELSE IF t = <<"/">> THEN "Divider"
      ELSE IF t = <<"%">> THEN "Modulator"
      ELSE None

\* variant of try_get_command: the "s" arm is missing
try_get_command_NoShow(str) ==
  LET t == Trim(str)
  IN  IF t = <<"q">> THEN "Quit"
      ELSE IF t = <<"p">> THEN "Pop"
      ELSE IF t = <<"c">> THEN "Clear"
      ELSE IF t = <<"?">> THEN "Help"
      ELSE None

try_get_command(str) ==
  LET t == Trim(str)
  IN  IF t = <<"q">> THEN "Quit"
      ELSE IF t = <<"p">> THEN "Pop"
      ELSE IF t = <<"c">> THEN "Clear"
      ELSE IF t = <<"s">> THEN "Show"
      ELSE IF t = <<"?">> THEN "Help"
      ELSE None

try_get_number(str) == ParseF32(Trim(str))

(***************************************************************************)
(* Vec<Number>: push at the tail, pop from the tail                        *)
(***************************************************************************)
\* variant of Push: inserts at the head of the vector
PushFront(st, v) == <<v>> \o st

Push(st, v) == Append(st, v)
Top(st) == st[Len(st)]
Second(st) == st[Len(st) - 1]
PopOne(st) == SubSeq(st, 1, Len(st) - 1)
PopTwo(st) == SubSeq(st, 1, Len(st) - 2)

(***************************************************************************)
(* Operator::apply.  The value is [stack |-> the stack after the call,     *)
(* ok |-> Ok or Err, val |-> the Ok number, err |-> the OperatorError].    *)
(***************************************************************************)
Ok(st, v) == [stack |-> st, ok |-> TRUE, val |-> v, err |-> None]
Err(st, e) == [stack |-> st, ok |-> FALSE, val |-> Zero(0), err |-> e]

AdderApply(st) ==
  IF Len(st) < 2 THEN Err(st, "NotEnoughOperands")
  ELSE LET a == Top(st)
           b == Second(st)
           answer == FAdd(a, b)
       IN  Ok(Push(PopTwo(st), answer), answer)

\* variant of SubtractorApply: binary case computes b - a
SubtractorApplySwapped(st) ==
  IF Len(st) = 0 THEN Err(st, "NotEnoughOperands")
  ELSE IF Len(st) = 1
       THEN LET b == st[Len(st)]
                answer == FNeg(b)
            IN  Ok(Append(SubSeq(st, 1, Len(st) - 1), answer), answer)
  ELSE LET b == st[Len(st)]
           a == st[Len(st) - 1]
           answer == FSub(b, a)
       IN  Ok(Append(SubSeq(st, 1, Len(st) - 2), answer), answer)

SubtractorApply(st) ==
  IF Len(st) = 0 THEN Err(st, "NotEnoughOperands")
  ELSE IF Len(st) = 1
       THEN LET b == Top(st)
                answer == FNeg(b)
            IN  Ok(Push(PopOne(st), answer), answer)
  ELSE LET b == Top(st)
           a == Second(st)
           answer == FSub(a, b)
       IN  Ok(Push(PopTwo(st), answer), answer)

\* variant of MultiplierApply: the second operand is read but not popped
MultiplierApplyOnePop(st) ==
  IF Len(st) < 2 THEN Err(st, "NotEnoughOperands")
  ELSE LET a == st[Len(st)]
           b == st[Len(st) - 1]
           answer == FMul(a, b)
       IN  Ok(Append(SubSeq(st, 1, Len(st) - 1), answer), answer)

MultiplierApply(st) ==
  IF Len(st) < 2 THEN Err(st, "NotEnoughOperands")
  ELSE LET a == Top(st)
           b == Second(st)
           answer == FMul(a, b)
       IN  Ok(Push(PopTwo(st), answer), answer)

\* variant of DividerApply: on a zero divisor only a is pushed back
DividerApplyDropsOperand(st) ==
  IF Len(st) < 2 THEN Err(st, "NotEnoughOperands")
  ELSE LET b == st[Len(st)]
           a == st[Len(st) - 1]
       IN  IF FEq(b, Zero(0))
           THEN Err(Append(SubSeq(st, 1, Len(st) - 2), a), "DivideByZero")
           ELSE LET answer == FDiv(a, b)
                IN  Ok(Append(SubSeq(st, 1, Len(st) - 2), answer), answer)

DividerApply(st) ==
  IF Len(st) < 2 THEN Err(st, "NotEnoughOperands")
  ELSE LET b == Top(st)
           a == Second(st)
       IN  IF FEq(b, Zero(0))
           THEN Err(Push(Push(PopTwo(st), a), b), "DivideByZero")
           ELSE LET answer == FDiv(a, b)
                IN  Ok(Push(PopTwo(st), answer), answer)

\* variant of ModulatorApply: the error kind copied from Divider
ModulatorApplyDivideKind(st) ==
  IF Len(st) < 2 THEN Err(st, "NotEnoughOperands")
  ELSE LET b == st[Len(st)]
           a == st[Len(st) - 1]
       IN  IF FEq(b, Zero(0))
           THEN Err(st, "DivideByZero")
           ELSE LET answer == FRem(a, b)
                IN  Ok(Append(SubSeq(st, 1, Len(st) - 2), answer), answer)

\* variant of ModulatorApply: computes b % a
ModulatorApplySwapped(st) ==
  IF Len(st) < 2 THEN Err(st, "NotEnoughOperands")
  ELSE LET b == st[Len(st)]
           a == st[Len(st) - 1]
       IN  IF FEq(b, Zero(0))
           THEN Err(st, "ModuloByZero")
           ELSE LET answer == FRem(b, a)
                IN  Ok(Append(SubSeq(st, 1, Len(st) - 2), answer), answer)

ModulatorApply(st) ==
  IF Len(st) < 2 THEN Err(st, "NotEnoughOperands")
  ELSE LET b == Top(st)
           a == Second(st)
       IN  IF FEq(b, Zero(0))
           THEN Err(Push(Push(PopTwo(st), a), b), "ModuloByZero")
           ELSE LET answer == FRem(a, b)
                IN  Ok(Push(PopTwo(st), answer), answer)

\* operator.apply(operand_stack) through the Box<dyn Operator>
Apply(op, st) ==
  CASE op = "Adder" -> AdderApply(st)
    [] op = "Subtractor" -> SubtractorApply(st)
    [] op = "Multiplier" -> MultiplierApply(st)
    [] op = "Divider" -> DividerApply(st)
    [] op = "Modulator" -> ModulatorApply(st)

(***************************************************************************)
(* main                                                                    *)
(***************************************************************************)
VARIABLES
  operand_stack,  \* the Vec<Number> of main
  pc,             \* "loop" inside the loop, "done" after the break
  line,           \* the line read_input returned last
  branch,         \* the branch of the if / else-if chain that ran for it
  result,         \* what operator.apply returned last
  output,         \* the last line printed
  steps,          \* lines read so far
  fed             \* the lines read so far, recorded under SpecRPN only

vars == <<operand_stack, pc, line, branch, result, output, steps, fed>>

\* the lines read_input may return (a line keeps its newline; "" is end of input)
Lines ==
  { <<"q", "\n">>, <<VerticalTab, "p", "\n">>, <<"p", "\n">>, <<"c", "\n">>,
    <<"s", "\n">>, <<"?", "\n">>, <<"+", "\n">>, <<"-", "\n">>,
    <<"*", "\n">>, <<"/", "\n">>, <<"U+3000", "%", NoBreakSpace, "\n">>, <<"3", "\n">>,
    <<"2", "\n">>, <<"0", "\n">>, <<"-", "0", "\n">>, <<"i", "n", "f", "\n">>,
    <<"N", "a", "N", "\n">>, <<".", "5", "\n">>, <<"x", "\n">>, <<"1", "e", "\n">>,
    <<"\n">>, <<>> }

\* the number and operator lines recorded under SpecRPN
RpnLines ==
  { <<"3", "\n">>, <<"4", "\n">>, <<"2", "\n">>, <<"+", "\n">>,
    <<"*", "\n">>, <<"-", "\n">>, <<"/", "\n">> }

NoResult == [ok |-> FALSE, val |-> Zero(0), err |-> None]
ResultOf(r) == [ok |-> r.ok, val |-> r.val, err |-> r.err]

\* println!: the text printed before the argument, and the argument
Out(kind, st, num, err) == [kind |-> kind, stack |-> st, num |-> num, err |-> err]
OutText(kind) == Out(kind, <<>>, Zero(0), None)
OutStack(kind, st) == Out(kind, st, Zero(0), None)
OutNumber(kind, num) == Out(kind, <<>>, num, None)
OutError(err) == Out("Error", <<>>, Zero(0), err)

\* print_help(): its last line
print_help == OutText("Valid commands")

Init ==
  /\ operand_stack = <<>>
  /\ pc = "loop"
  /\ line = <<>>
  /\ branch = "start"
  /\ result = NoResult
  /\ output = print_help
  /\ steps = 0
  /\ fed = <<>>

\* if line.trim().is_empty() { continue; }
Blank(l) ==
  /\ Trim(l) = <<>>
  /\ branch' = "blank"
  /\ UNCHANGED <<operand_stack, pc, result, output>>

CmdHelp(l) ==
  /\ Trim(l) # <<>>
  /\ try_get_command(l) = "Help"
  /\ branch' = "command"
  /\ output' = print_help
  /\ UNCHANGED <<operand_stack, pc, result>>

\* break, then println!("Final stack: {:?}", operand_stack)
CmdQuit(l) ==
  /\ Trim(l) # <<>>
  /\ try_get_command(l) = "Quit"
  /\ branch' = "command"
  /\ pc' = "done"
  /\ output' = OutStack("Final stack", operand_stack)
  /\ UNCHANGED <<operand_stack, result>>

CmdPop(l) ==
  /\ Trim(l) # <<>>
  /\ try_get_command(l) = "Pop"
  /\ branch' = "command"
  /\ IF Len(operand_stack) > 0
     THEN /\ output' = OutNumber("Popped", Top(operand_stack))
          /\ operand_stack' = PopOne(operand_stack)
     ELSE /\ output' = OutText("Stack is empty")
          /\ operand_stack' = operand_stack
  /\ UNCHANGED <<pc, result>>

\* variant of CmdClear: the stack is cleared before it is printed
CmdClearThenReport(l) ==
  /\ Trim(l) # <<>>
  /\ try_get_command(l) = "Clear"
  /\ branch' = "command"
  /\ operand_stack' = <<>>
  /\ output' = OutStack("Clearing stack", operand_stack')
  /\ UNCHANGED <<pc, result>>

CmdClear(l) ==
  /\ Trim(l) # <<>>
  /\ try_get_command(l) = "Clear"
  /\ branch' = "command"
  /\ output' = OutStack("Clearing stack", operand_stack)
  /\ operand_stack' = <<>>
  /\ UNCHANGED <<pc, result>>

CmdShow(l) ==
  /\ Trim(l) # <<>>
  /\ try_get_command(l) = "Show"
  /\ branch' = "command"
  /\ output' = OutStack("Stack", operand_stack)
  /\ UNCHANGED <<operand_stack, pc, result>>

OperatorLine(l) ==
  /\ Trim(l) # <<>>
  /\ try_get_command(l) = None
  /\ try_get_operator(l) # None
  /\ branch' = "operator"
  /\ LET r == Apply(try_get_operator(l), operand_stack)
     IN  /\ operand_stack' = r.stack
         /\ result' = ResultOf(r)
         /\ output' = IF r.ok THEN OutNumber("Result", r.val) ELSE OutError(r.err)
  /\ UNCHANGED pc

NumberLine(l) ==
  /\ Trim(l) # <<>>
  /\ try_get_command(l) = None
  /\ try_get_operator(l) = None
  /\ try_get_number(l).ok
  /\ branch' = "number"
  /\ output' = OutNumber("Number", try_get_number(l).val)
  /\ operand_stack' = Push(operand_stack, try_get_number(l).val)
  /\ UNCHANGED <<pc, result>>

\* variant of InvalidLine: a failed parse pushes the default number
InvalidLinePushesZero(l) ==
  /\ Trim(l) # <<>>
  /\ try_get_command(l) = None
  /\ try_get_operator(l) = None
  /\ ~try_get_number(l).ok
  /\ branch' = "invalid"
  /\ output' = OutText("Invalid input")
  /\ operand_stack' = Append(operand_stack, Zero(0))
  /\ UNCHANGED <<pc, result>>

InvalidLine(l) ==
  /\ Trim(l) # <<>>
  /\ try_get_command(l) = None
  /\ try_get_operator(l) = None
  /\ ~try_get_number(l).ok
  /\ branch' = "invalid"
  /\ output' = OutText("Invalid input")
  /\ UNCHANGED <<operand_stack, pc, result>>

\* let line = read_input(); one more turn of the loop
Read(l) ==
  /\ pc = "loop"
  /\ steps < MaxSteps
  /\ steps' = steps + 1
  /\ line' = l
  /\ fed' = fed

SkipBlank == \E l \in Lines : Read(l) /\ Blank(l)
DoHelp == \E l \in Lines : Read(l) /\ CmdHelp(l)
DoQuit == \E l \in Lines : Read(l) /\ CmdQuit(l)
DoPop == \E l \in Lines : Read(l) /\ CmdPop(l)
DoClear == \E l \in Lines : Read(l) /\ CmdClear(l)
DoShow == \E l \in Lines : Read(l) /\ CmdShow(l)
DoOperator == \E l \in Lines : Read(l) /\ OperatorLine(l)
DoNumber == \E l \in Lines : Read(l) /\ NumberLine(l)
DoInvalid == \E l \in Lines : Read(l) /\ InvalidLine(l)

Next ==
  \/ SkipBlank
  \/ DoHelp
  \/ DoQuit
  \/ DoPop
  \/ DoClear
  \/ DoShow
  \/ DoOperator
  \/ DoNumber
  \/ DoInvalid

Spec == Init /\ [][Next]_vars

\* the same loop fed number and operator lines only, each line recorded
ReadRpn(l) ==
  /\ pc = "loop"
  /\ Len(fed) < MaxFed
  /\ fed' = Append(fed, l)
  /\ line' = l
  /\ steps' = steps

RpnOperator == \E l \in RpnLines : ReadRpn(l) /\ OperatorLine(l)
RpnNumber == \E l \in RpnLines : ReadRpn(l) /\ NumberLine(l)

NextRPN == RpnOperator \/ RpnNumber

SpecRPN == Init /\ [][NextRPN]_vars

(***************************************************************************)
(* Properties                                                              *)
(***************************************************************************)
CommandTokens == {<<"q">>, <<"p">>, <<"c">>, <<"s">>, <<"?">>}
OperatorTokens == {<<"+">>, <<"-">>, <<"*">>, <<"/">>, <<"%">>}
OperatorErrors == {"NotEnoughOperands", "DivideByZero", "ModuloByZero"}

\* the lines "3", "4", "+", "2", "*" of the end-to-end example
Example == << <<"3", "\n">>, <<"4", "\n">>, <<"+", "\n">>, <<"2", "\n">>,
              <<"*", "\n">> >>

\* C1: whenever apply returns an OperatorError (NotEnoughOperands,
\* DivideByZero or ModuloByZero), for any operator and any stack, the stack
\* after the call equals the stack before it: same length, values and order.
C1_ErrorLeavesStack ==
  [][(branch' = "operator" /\ ~result'.ok)
       => /\ result'.err \in OperatorErrors
          /\ Len(operand_stack') = Len(operand_stack)
          /\ \A i \in 1..Len(operand_stack) :
               operand_stack'[i] = operand_stack[i]]_vars

\* a division by zero (here by -0.0 or 0.0) has just failed on a stack that
\* holds a third value below the two operands
C1_Witness ==
  /\ branch = "operator"
  /\ result.err = "DivideByZero"
  /\ Len(operand_stack) = 3
  /\ IsZero(operand_stack[3])
  /\ ~IsZero(operand_stack[2])

\* the error the claim C2 gives for operator op on stack st (None: success)
ClaimedError(op, st) ==
  IF op \in {"Adder", "Multiplier", "Divider", "Modulator"} /\ Len(st) < 2
    THEN "NotEnoughOperands"
  ELSE IF op = "Subtractor" /\ Len(st) = 0 THEN "NotEnoughOperands"
  ELSE IF op = "Divider" /\ FEq(st[Len(st)], Zero(0)) THEN "DivideByZero"
  ELSE IF op = "Modulator" /\ FEq(st[Len(st)], Zero(0)) THEN "ModuloByZero"
  ELSE None

\* C2: apply fails exactly when, and with exactly the kind, the claim lists:
\* NotEnoughOperands iff fewer than 2 values (Subtract: iff none), then
\* DivideByZero / ModuloByZero iff the top equals 0; it succeeds otherwise.
C2_ErrorCases ==
  [][branch' = "operator"
       => /\ result'.err = ClaimedError(try_get_operator(line'), operand_stack)
          /\ result'.ok <=> (result'.err = None)]_vars

\* Divide on the stack [0]: the arity check wins over the zero check
C2_Witness ==
  /\ branch = "operator"
  /\ try_get_operator(line) = "Divider"
  /\ result.err = "NotEnoughOperands"
  /\ Len(operand_stack) = 1
  /\ IsZero(operand_stack[1])

\* the number of operands the claim C3 says a successful apply consumes
Consumed(op, st) == IF op = "Subtractor" /\ Len(st) = 1 THEN 1 ELSE 2

\* C3: a successful apply removes its operands from the tail, pushes exactly
\* one value and returns it: the new top is the result, the new length is the
\* old one less the operands plus one, and everything below is untouched.
C3_SuccessShape ==
  [][(branch' = "operator" /\ result'.ok)
       => LET n == Consumed(try_get_operator(line'), operand_stack)
              below == Len(operand_stack) - n
          IN  /\ below >= 0
              /\ Len(operand_stack') = below + 1
              /\ operand_stack'[below + 1] = result'.val
              /\ \A i \in 1..below : operand_stack'[i] = operand_stack[i]]_vars

\* a binary operator has just succeeded above a value it left in place
C3_Witness ==
  /\ branch = "operator"
  /\ result.ok
  /\ Len(operand_stack) = 2
  /\ try_get_operator(line) = "Multiplier"

\* C4: Subtract on a (beneath) and b (top) gives a - b: [3, 2] gives 1 and
\* [2, 3] gives -1; on a single value b it replaces b by -b and returns -b.
C4_SubtractOrder ==
  [][(branch' = "operator" /\ try_get_operator(line') = "Subtractor")
       => /\ Len(operand_stack) >= 2
               => /\ result'.ok
                  /\ result'.val
                       = FSub(operand_stack[Len(operand_stack) - 1],
                              operand_stack[Len(operand_stack)])
          /\ operand_stack = <<FromNat(3), FromNat(2)>>
               => operand_stack' = <<FromNat(1)>> /\ result'.val = FromNat(1)
          /\ operand_stack = <<FromNat(2), FromNat(3)>>
               => /\ operand_stack' = <<FNeg(FromNat(1))>>
                  /\ result'.val = FNeg(FromNat(1))
          /\ Len(operand_stack) = 1
               => /\ result'.ok
                  /\ result'.val = FNeg(operand_stack[1])
                  /\ operand_stack' = <<FNeg(operand_stack[1])>>]_vars

\* Subtract has just left -1 as the only value
C4_Witness ==
  /\ branch = "operator"
  /\ try_get_operator(line) = "Subtractor"
  /\ result.ok
  /\ operand_stack = <<FNeg(FromNat(1))>>

\* C5: Divide and Modulo on a (beneath) and b (top) with b not equal to 0
\* push and return a / b and a % b; only b is tested against zero, so a zero
\* dividend with a non-zero divisor succeeds.
C5_DividendBeneath ==
  [][(/\ branch' = "operator"
      /\ try_get_operator(line') \in {"Divider", "Modulator"}
      /\ Len(operand_stack) >= 2
      /\ ~FEq(operand_stack[Len(operand_stack)], Zero(0)))
       => LET a == operand_stack[Len(operand_stack) - 1]
              b == operand_stack[Len(operand_stack)]
              q == IF try_get_operator(line') = "Divider"
                   THEN FDiv(a, b) ELSE FRem(a, b)
          IN  /\ result'.ok
              /\ result'.val = q
              /\ operand_stack'[Len(operand_stack')] = q
              /\ operand_stack = <<FromNat(3), FromNat(2)>>
                   => result'.val = IF try_get_operator(line') = "Divider"
                                    THEN Dec2Flt(0, 15, 0 - 1) ELSE FromNat(1)
              /\ (IsZero(a) /\ IsFinite(b)) => IsZero(result'.val)]_vars

\* 3 % 2 has just left 1 above another value
C5_Witness ==
  /\ branch = "operator"
  /\ try_get_operator(line) = "Modulator"
  /\ result.ok
  /\ result.val = FromNat(1)
  /\ Len(operand_stack) = 2

\* C6: (doc comments of Divider::apply and Modulator::apply) the top-most
\* number is divided by the second number: with a beneath and b on top the
\* result is b / a, respectively b % a.
C6_TopDividedBySecond ==
  [][(/\ branch' = "operator"
      /\ try_get_operator(line') \in {"Divider", "Modulator"}
      /\ result'.ok)
       => LET a == operand_stack[Len(operand_stack) - 1]
              b == operand_stack[Len(operand_stack)]
          IN  result'.val = IF try_get_operator(line') = "Divider"
                            THEN FDiv(b, a) ELSE FRem(b, a)]_vars

\* C7: a non-empty trimmed token runs exactly one of the four branches,
\* tried in the order Command, Operator, Number, Invalid: a command token
\* always runs the command branch, an operator token the operator branch
\* (never pushed as a number), and the two token sets are disjoint.
C7_Classification ==
  LET t == Trim(line)
  IN  /\ CommandTokens \cap OperatorTokens = {}
      /\ (steps > 0 /\ t # <<>>)
           => /\ branch \in {"command", "operator", "number", "invalid"}
              /\ (branch = "command") <=> (t \in CommandTokens)
              /\ (branch = "operator") <=> (t \in OperatorTokens)
              /\ (branch = "number")
                   <=> (/\ t \notin CommandTokens
                        /\ t \notin OperatorTokens
                        /\ ParseF32(t).ok)
              /\ (branch = "number") <=> (output.kind = "Number")
      /\ (steps > 0 /\ t = <<>>) => branch = "blank"

\* the token "p" after a vertical tab has just run as a command
C7_Witness ==
  /\ branch = "command"
  /\ line = <<VerticalTab, "p", "\n">>
  /\ output.kind = "Stack is empty"

\* left-to-right RPN evaluation of recorded lines: a number is appended at
\* the tail, an operator applies to the tail of the stack
RECURSIVE RpnEval(_)
RpnEval(ls) ==
  IF ls = <<>> THEN <<>>
  ELSE LET st == RpnEval(SubSeq(ls, 1, Len(ls) - 1))
           t == Trim(ls[Len(ls)])
       IN  IF t \in OperatorTokens
           THEN Apply(try_get_operator(t), st).stack
           ELSE Append(st, ParseF32(t).val)

\* C8: from the empty stack the lines "3", "4", "+", "2", "*" leave [14]
\* ([7] after "+"); for any run of number and operator lines the stack is
\* the left-to-right RPN evaluation of the lines read.
C8_EndToEnd ==
  /\ fed = SubSeq(Example, 1, 3) => operand_stack = <<FromNat(7)>>
  /\ fed = Example => operand_stack = <<FromNat(14)>>
  /\ operand_stack = RpnEval(fed)

\* the five lines of the example have been read
C8_Witness ==
  /\ fed = Example
  /\ operand_stack = <<FromNat(14)>>
  /\ output = OutNumber("Result", FromNat(14))

\* C9: Show and Clear report the same content for the same stack, the whole
\* stack in insertion order as it was just before the command; Clear reports
\* before it empties, and always leaves the stack empty.
C9_ShowClearReport ==
  [][/\ (branch' = "command" /\ try_get_command(line') = "Show")
          => /\ output' = OutStack("Stack", operand_stack)
             /\ operand_stack' = operand_stack
     /\ (branch' = "command" /\ try_get_command(line') = "Clear")
          => /\ output' = OutStack("Clearing stack", operand_stack)
             /\ operand_stack' = <<>>]_vars

\* Clear has just reported a stack of three values and emptied it
C9_Witness ==
  /\ branch = "command"
  /\ try_get_command(line) = "Clear"
  /\ output.kind = "Clearing stack"
  /\ Len(output.stack) = 3
  /\ operand_stack = <<>>

\* C10: an Invalid token, Help, Show and Quit leave the stack as it was;
\* only a Number, a successful operator, Pop on a non-empty stack and Clear
\* change it; Pop on the empty stack reports emptiness and leaves it empty.
C10_Frame ==
  [][LET cmd == IF branch' = "command" THEN try_get_command(line') ELSE None
     IN  /\ (branch' = "invalid" \/ cmd \in {"Help", "Show", "Quit"})
              => operand_stack' = operand_stack
         /\ operand_stack' # operand_stack
              => \/ branch' = "number"
                 \/ branch' = "operator" /\ result'.ok
                 \/ cmd = "Pop" /\ Len(operand_stack) > 0
                 \/ cmd = "Clear"
         /\ (cmd = "Pop" /\ operand_stack = <<>>)
              => /\ operand_stack' = <<>>
                 /\ output' = OutText("Stack is empty")]_vars

\* an invalid token has just been reported with two values on the stack
C10_Witness ==
  /\ branch = "invalid"
  /\ output.kind = "Invalid input"
  /\ Len(operand_stack) = 2

=============================================================================
